---- MODULE Spec2Model ----
(***************************************************************************)
(* Model of the RAG Chat API (src/main.py) and of the Generation Service   *)
(* it calls (src/utils/vertex_service.py).                                 *)
(*                                                                         *)
(* Python dicts are objects: chat_sessions maps a session id to a          *)
(* reference, and a request handler holds a reference to the dict it got   *)
(* from chat_sessions.get().  The model keeps the dicts in heap and the    *)
(* references in chat_sessions and in the in-flight stream requests.       *)
(*                                                                         *)
(* Texts are sequences of one-character strings.  Timestamps               *)
(* (created_at, last_updated, the turn's timestamp) and the turn's         *)
(* used_rag flag are written by the handlers and never read by them; they  *)
(* are left out of the session record.                                     *)
(*                                                                         *)
(* The external provider (retrieval, generation, summarization) is the     *)
(* environment: every call draws its outcome from a small set.             *)
(***************************************************************************)
EXTENDS Integers, Sequences, FiniteSets, TLC

(***************************************************************************)
(* Bounds of the model.                                                    *)
(***************************************************************************)
\* chat requests (blocking or streaming) accepted in one run
MaxRequests == 2
\* chat requests accepted in one run on a single session, one at a time
MaxDeepRequests == 7
\* streaming requests in one run; each stream slot is used once
NumStreams == 2
\* largest history window and longest turn list the context builder is called with
MaxWindow == 3
MaxTurns == 4
\* largest message_count a call of a function of the service is made with
MaxCount == 15
\* messages the UI's local list holds at most
MaxUiMessages == 4
\* times a run switches away from a streaming request that is still in flight
\* (another request is handled, or another stream resumes, before it ends)
MaxSwitches == 1

(***************************************************************************)
(* Program constants.                                                      *)
(***************************************************************************)
\* main.py: context_used[:200] + "..." if len(context_used) > 200
ExcerptLen == 200
\* main.py: session["messages"][-10:]
HistoryPage == 10
\* vertex_service.py: chat_config.get('summarize_threshold', 5)
summarize_threshold == 5
\* vertex_service.py: chat_config.get('max_context_length', 4000)
max_context_length == 4000
\* vertex_service.py: session_data["messages"][-2:]
KeepAfterSummary == 2

(***************************************************************************)
(* Inputs.                                                                 *)
(***************************************************************************)
\* Python None where a dict or an object is expected
None == [none |-> TRUE]
\* no reference: the id is not a key of chat_sessions
NoRef == 0
\* ChatRequest.session_id left out (None)
NoId == "-"
\* session ids that clients choose, and ids that uuid.uuid4() generates
ClientIds == {"s1"}
GeneratedIds == {"u1"}
SessionIds == ClientIds \cup GeneratedIds
\* ChatRequest.session_id: a client-chosen id, absent, or the empty string
RequestIds == ClientIds \cup {NoId, ""}
Messages == {<<"q">>}
\* config.yaml chat_history.summarize_threshold: the default, and values small
\* enough for the periodic summarization to happen in short runs
Thresholds == {1, 3, summarize_threshold}

\* a text of n characters whose characters differ by position
Txt(n) == [i \in 1..n |-> CASE i % 3 = 0 -> "x" [] i % 3 = 1 -> "y" [] OTHER -> "z"]

\* retrieval_response.contexts.contexts: the text segments the corpus returns
ContextLists ==
  { <<>>, <<Txt(0), Txt(99), Txt(99)>>, <<Txt(100), Txt(99)>> }
Raise == [raise |-> TRUE]
RetrievalOutcomes == {Raise} \cup {[raise |-> FALSE, contexts |-> c] : c \in ContextLists}
\* response.text of a generation call
GenerationOutcomes == {Raise} \cup {[raise |-> FALSE, text |-> t] : t \in {<<" ", "a", " ">>}}
\* response.text of a summarization call
SummaryOutcomes ==
  {Raise} \cup {[raise |-> FALSE, text |-> t] : t \in {<<" ">>, <<"s", " ">>}}
\* chunks of a streamed generation: one without text, one with chunk.text,
\* one whose text is in the parts of its candidates
EmptyIncrement == [text |-> <<>>, parts |-> <<>>]
TextIncrement == [text |-> <<"a">>, parts |-> <<>>]
PartsIncrement == [text |-> <<>>, parts |-> <<<<"b">>, <<>>>>]
\* what the provider's stream delivers when it does not fail
StreamScripts == {<<>>, <<TextIncrement, EmptyIncrement, PartsIncrement>>}
\* str(e) of a provider exception
ExcText == <<"e">>

(***************************************************************************)
(* Text helpers (Python str operations).                                   *)
(***************************************************************************)
RECURSIVE lstrip(_)
lstrip(s) == IF s # <<>> /\ Head(s) = " " THEN lstrip(Tail(s)) ELSE s

RECURSIVE rstrip(_)
rstrip(s) == IF s # <<>> /\ s[Len(s)] = " " THEN rstrip(SubSeq(s, 1, Len(s) - 1)) ELSE s

\* str.strip()
strip(s) == rstrip(lstrip(s))

\* s[:n]
Take(s, n) == SubSeq(s, 1, IF Len(s) < n THEN Len(s) ELSE n)

\* s[-n:]
LastN(s, n) == SubSeq(s, IF Len(s) > n THEN Len(s) - n + 1 ELSE 1, Len(s))

RECURSIVE Join(_, _)
\* sep.join(parts)
Join(parts, sep) ==
  IF parts = <<>> THEN <<>>
  ELSE IF Len(parts) = 1 THEN parts[1]
  ELSE parts[1] \o sep \o Join(Tail(parts), sep)

RECURSIVE Concat(_)
\* "".join(parts)
Concat(parts) == IF parts = <<>> THEN <<>> ELSE Head(parts) \o Concat(Tail(parts))

\* f"❌ Error generating response: {e}"
ErrorMarker(e) == <<"#">> \o e
\* "❌ Model not initialized."
NotInitializedMarker == <<"#", "m">>


(***************************************************************************)
(* Generation Service (VertexRAGService).                                  *)
(***************************************************************************)
\* a constructed service: _model, _rag_resources and the configured threshold.
\* _initialize_services raises unless _model was built, so model is TRUE.
Services ==
  [model : {TRUE}, rag_resources : BOOLEAN, summarize_threshold : Thresholds]

\* _retrieve_rag_context: out is what rag.retrieval_query does
retrieve_rag_context(svc, out) ==
  IF ~svc.rag_resources THEN <<>>
  ELSE IF out.raise THEN <<>>
  ELSE IF out.contexts # <<>>
       THEN Take(Join(SelectSeq(out.contexts, LAMBDA t : t # <<>>), <<"\n", "\n">>),
                 max_context_length)
       ELSE <<>>

\* dict.get(key, default)
Get(dict, key, default) == IF key \in DOMAIN dict THEN dict[key] ELSE default

\* variant: summarizes once the count has reached the threshold
should_summarize_reached(svc, session_data) ==
  LET message_count == Get(session_data, "message_count", 0)
  IN message_count > 0 /\ message_count >= svc.summarize_threshold

\* _should_summarize
should_summarize(svc, session_data) ==
  LET message_count == Get(session_data, "message_count", 0)
  IN message_count > 0 /\ message_count % svc.summarize_threshold = 0

\* variant: the window holds the oldest turns
build_conversation_context_oldest(svc, session_data) ==
  LET summary == Get(session_data, "summary", <<>>)
      recent_messages == Take(Get(session_data, "messages", <<>>), svc.max_history_length)
      lines == [j \in 1..2 * Len(recent_messages) |->
                  IF j % 2 = 1
                  THEN <<"User: ">> \o recent_messages[(j + 1) \div 2].user
                  ELSE <<"Assistant: ">> \o recent_messages[j \div 2].assistant]
  IN Join((IF summary # <<>>
           THEN <<<<"Previous conversation summary:", "\n">> \o summary>> ELSE <<>>)
            \o (IF recent_messages # <<>>
                THEN <<<<"Recent conversation:">>>> \o lines ELSE <<>>),
          <<"\n", "\n">>)

\* _build_conversation_context: a label is one character of the text
build_conversation_context(svc, session_data) ==
  LET summary == Get(session_data, "summary", <<>>)
      recent_messages == LastN(Get(session_data, "messages", <<>>), svc.max_history_length)
      lines == [j \in 1..2 * Len(recent_messages) |->
                  IF j % 2 = 1
                  THEN <<"User: ">> \o recent_messages[(j + 1) \div 2].user
                  ELSE <<"Assistant: ">> \o recent_messages[j \div 2].assistant]
  IN Join((IF summary # <<>>
           THEN <<<<"Previous conversation summary:", "\n">> \o summary>> ELSE <<>>)
            \o (IF recent_messages # <<>>
                THEN <<<<"Recent conversation:">>>> \o lines ELSE <<>>),
          <<"\n", "\n">>)

\* the lines every prompt ends with, from the user's message on
ClosingLines(user_message, instructions) ==
  <<<<"CURRENT USER MESSAGE:">>, user_message, <<>>, <<"INSTRUCTIONS:">>>>
    \o instructions \o <<<<>>, <<"RESPONSE:">>>>

HistoryLines(conversation_context) ==
  IF conversation_context # <<>>
  THEN <<<<"CONVERSATION HISTORY:">>, conversation_context, <<>>>>
  ELSE <<>>

RagPreamble ==
  <<<<"You are a helpful AI assistant with access to a knowledge base.">>,
    <<"Use the provided context to answer questions accurately and comprehensively.">>,
    <<"If the context doesn't contain relevant information, clearly state this and provide a helpful response based on your general knowledge.">>,
    <<>>>>

RagInstructions ==
  <<<<"- Use the knowledge base context to answer the user's question if relevant">>,
    <<"- Consider the conversation history to maintain context and continuity">>,
    <<"- If the knowledge base doesn't contain relevant information, clearly mention this">>,
    <<"- Provide a helpful, accurate, and conversational response">>,
    <<"- Be concise but comprehensive">>>>

\* variant: the knowledge base section is always written
get_rag_chat_prompt_always(user_message, rag_context, conversation_context) ==
  Join(RagPreamble
         \o HistoryLines(conversation_context)
         \o <<<<"KNOWLEDGE BASE CONTEXT:">>, rag_context, <<>>>>
         \o ClosingLines(user_message, RagInstructions),
       <<"\n">>)

\* RAGPrompts.get_rag_chat_prompt: a line of the template is one character
get_rag_chat_prompt(user_message, rag_context, conversation_context) ==
  Join(RagPreamble
         \o HistoryLines(conversation_context)
         \o (IF rag_context # <<>>
             THEN <<<<"KNOWLEDGE BASE CONTEXT:">>, rag_context, <<>>>>
             ELSE <<>>)
         \o ClosingLines(user_message, RagInstructions),
       <<"\n">>)

ChatPreamble ==
  <<<<"You are a helpful AI assistant engaged in a conversation.">>,
    <<"Use the conversation history to maintain context and provide relevant, coherent responses.">>,
    <<"Be conversational and natural.">>,
    <<>>>>

ChatInstructions ==
  <<<<"- Consider the conversation history to maintain context and continuity">>,
    <<"- Provide a helpful, accurate, and conversational response">>,
    <<"- Be natural and engaging in your communication style">>>>

\* RAGPrompts.get_chat_prompt
get_chat_prompt(user_message, conversation_context) ==
  Join(ChatPreamble
         \o HistoryLines(conversation_context)
         \o ClosingLines(user_message, ChatInstructions),
       <<"\n">>)

\* variant: no summary is ever produced
summarize_conversation_silent(svc, messages, out) == <<>>

\* summarize_conversation: out is what the model's generate_content does
summarize_conversation(svc, messages, out) ==
  IF messages = <<>> THEN <<>>
  ELSE IF ~svc.model \/ out.raise THEN <<>>
  ELSE strip(out.text)

\* variant: the template is chosen by the request's use_rag
final_prompt_by_request(svc, message, session_data, use_rag, retr) ==
  LET queried == use_rag /\ svc.rag_resources
      rag_context == IF queried THEN retrieve_rag_context(svc, retr) ELSE <<>>
      conversation_context == build_conversation_context(svc, session_data)
  IN [queried |-> queried,
      rag_context |-> rag_context,
      prompt |-> IF use_rag
                 THEN get_rag_chat_prompt(message, rag_context, conversation_context)
                 ELSE get_chat_prompt(message, conversation_context)]

\* chat_with_history, lines 179-198 (and chat_with_history_stream, 224-243):
\* whether rag.retrieval_query is called, the context retrieved, and the
\* prompt handed to the model
final_prompt(svc, message, session_data, use_rag, retr) ==
  LET queried == use_rag /\ svc.rag_resources
      rag_context == IF queried THEN retrieve_rag_context(svc, retr) ELSE <<>>
      conversation_context == build_conversation_context(svc, session_data)
  IN [queried |-> queried,
      rag_context |-> rag_context,
      prompt |-> IF rag_context # <<>>
                 THEN get_rag_chat_prompt(message, rag_context, conversation_context)
                 ELSE get_chat_prompt(message, conversation_context)]

\* no summarization call was made
NotSummarized == [called |-> FALSE, text |-> <<>>]

\* variant: the except block returns the retrieved context
GenerationError_with_context(session_data, rag_context) ==
  [response |-> ErrorMarker(ExcText), context |-> rag_context,
   session_data |-> session_data, summarized |-> NotSummarized]

\* chat_with_history, lines 213-214: the except block
GenerationError(session_data, rag_context) ==
  [response |-> ErrorMarker(ExcText), context |-> <<>>,
   session_data |-> session_data, summarized |-> NotSummarized]

\* variant: the summary is assigned and the list pruned whatever the
\* summarization returned
chat_with_history_unguarded(svc, session_data, use_rag, retr, gen, summ) ==
  IF ~svc.model
  THEN [response |-> NotInitializedMarker, context |-> <<>>,
        session_data |-> session_data, summarized |-> NotSummarized]
  ELSE
    LET rag_context == IF use_rag /\ svc.rag_resources
                       THEN retrieve_rag_context(svc, retr) ELSE <<>>
    IN
    IF gen.raise
    THEN GenerationError(session_data, rag_context)
    ELSE IF should_summarize(svc, session_data)
    THEN LET summary == summarize_conversation(svc, session_data.messages, summ) IN
         [response |-> strip(gen.text), context |-> rag_context,
          session_data |->
            [session_data EXCEPT
               !.summary = summary,
               !.messages = LastN(session_data.messages, KeepAfterSummary)],
          summarized |-> [called |-> TRUE, text |-> summary]]
    ELSE [response |-> strip(gen.text), context |-> rag_context,
          session_data |-> session_data, summarized |-> NotSummarized]

\* chat_with_history: the returned pair, the session dict as the call leaves
\* it, and (summarized) whether summarize_conversation was called and its text
chat_with_history(svc, session_data, use_rag, retr, gen, summ) ==
  IF ~svc.model
  THEN [response |-> NotInitializedMarker, context |-> <<>>,
        session_data |-> session_data, summarized |-> NotSummarized]
  ELSE
    LET rag_context == IF use_rag /\ svc.rag_resources
                       THEN retrieve_rag_context(svc, retr) ELSE <<>>
    IN
    IF gen.raise
    THEN GenerationError(session_data, rag_context)
    ELSE IF should_summarize(svc, session_data)
    THEN LET summary == summarize_conversation(svc, session_data.messages, summ) IN
         [response |-> strip(gen.text), context |-> rag_context,
          session_data |->
            IF summary # <<>>
            THEN [session_data EXCEPT
                    !.summary = summary,
                    !.messages = LastN(session_data.messages, KeepAfterSummary)]
            ELSE session_data,
          summarized |-> [called |-> TRUE, text |-> summary]]
    ELSE [response |-> strip(gen.text), context |-> rag_context,
          session_data |-> session_data, summarized |-> NotSummarized]

(***************************************************************************)
(* Chat API Service: state.                                                *)
(***************************************************************************)
VARIABLES
  app,            \* "serving", or "aborted" once the startup handler raised
  rag_service,    \* the global service instance, None until startup
  chat_sessions,  \* session id -> reference to a session dict, or NoRef
  heap,           \* reference -> session dict, None when not allocated
  streams,        \* stream slot -> the state of that streaming request
  resp,           \* the last HTTP response returned by a handler
  nreq,           \* chat requests accepted so far
  seen,           \* history: session ids that have ever been in the store
  appended,       \* history: turns appended for an id since it was last absent
  cur,            \* scheduling: the stream slot that ran last and is in flight, or 0
  switches,       \* scheduling: switches away from an in-flight stream so far
  ui              \* Chat Client UI (app.py): st.session_state of one browser session

vars ==
  <<app, rag_service, chat_sessions, heap, streams, resp, nreq, seen, appended,
    cur, switches, ui>>

StreamIds == 1..NumStreams
ObjIds == 1..(Cardinality(SessionIds) + NumStreams)

\* variant: the default dict counts one message
NewSession_counting == [messages |-> <<>>, message_count |-> 1, summary |-> <<>>]

\* the default dict of chat_sessions.get(session_id, {...})
NewSession == [messages |-> <<>>, message_count |-> 0, summary |-> <<>>]

\* a turn appended to session["messages"]
Turn(message, response) == [user |-> message, assistant |-> response]

\* variant: the count is the length of the list
Updated_by_length(session, message, response) ==
  [session EXCEPT !.messages = Append(@, Turn(message, response)),
                  !.message_count = Len(session.messages) + 1]

\* main.py 85-91 and 144-150: the turn is appended and the count incremented
Updated(session, message, response) ==
  [session EXCEPT !.messages = Append(@, Turn(message, response)),
                  !.message_count = @ + 1]

\* a stream slot that has not been used
IdleStream ==
  [pc |-> "idle", session_id |-> NoId, session |-> NoRef, message |-> <<>>,
   use_rag |-> FALSE, rag_context |-> <<>>, full_response |-> <<>>,
   context_used |-> <<>>, pending |-> <<>>, frames |-> <<>>, delivered |-> <<>>,
   failed |-> FALSE, summarized |-> NotSummarized]

\* a new dict gets the least reference not in use
Alloc(h) == CHOOSE o \in ObjIds : h[o] = None /\ \A p \in ObjIds : p < o => h[p] # None

\* dicts no longer referenced by the store or by a stream are dropped
Collect(h, store, strs) ==
  [o \in ObjIds |->
     IF (\E sid \in SessionIds : store[sid] = o) \/ (\E r \in StreamIds : strs[r].session = o)
     THEN h[o] ELSE None]

\* app.py line 11: the URL of this API, the default of the UI's API URL field
API_BASE_URL == "http://backend:8000"

\* app.py initialize_session_state: a generated session id, no messages and a
\* client bound to API_BASE_URL; api_url is the value of the API URL field;
\* last is history, the outcome of the UI's last action
InitialUi ==
  [session_id |-> "s1", messages |-> <<>>,
   api_url |-> API_BASE_URL, chat_client |-> API_BASE_URL,
   last |-> [action |-> "none", how |-> "none", status |-> 0, url |-> "none"]]

Init ==
  /\ app = "serving"
  /\ rag_service = None
  /\ chat_sessions = [sid \in SessionIds |-> NoRef]
  /\ heap = [o \in ObjIds |-> None]
  /\ streams = [r \in StreamIds |-> IdleStream]
  /\ resp = [op |-> "none", status |-> 0, session_id |-> NoId, body |-> None, note |-> None]
  /\ nreq = 0
  /\ seen = {}
  /\ appended = [sid \in SessionIds |-> 0]
  /\ cur = 0
  /\ switches = 0
  /\ ui = InitialUi

\* raise HTTPException(status_code, ...)
HTTPException(op, session_id, status_code) ==
  [op |-> op, status |-> status_code, session_id |-> session_id, body |-> None, note |-> None]

\* a 200 response
Ok(op, session_id, body, note) ==
  [op |-> op, status |-> 200, session_id |-> session_id, body |-> body, note |-> note]

\* variant: truncates from 200 characters on
Excerpt_from(context_used) ==
  IF context_used # <<>> /\ Len(context_used) >= ExcerptLen
  THEN Take(context_used, ExcerptLen) \o <<".", ".", ".">>
  ELSE context_used

\* context_used[:200] + "..." if context_used and len(context_used) > 200 else context_used
Excerpt(context_used) ==
  IF context_used # <<>> /\ Len(context_used) > ExcerptLen
  THEN Take(context_used, ExcerptLen) \o <<".", ".", ".">>
  ELSE context_used

\* session ids a chat request has named or the service has generated so far
issued == seen \cup {streams[r].session_id : r \in StreamIds}

\* variant: an id is generated whatever the request names
SessionIdFor_always(rid) == GeneratedIds \ (issued \cup {ui.session_id})

\* request.session_id or str(uuid.uuid4()): the ids the handler may end up
\* with; a generated id is one nobody has used, the UI included
SessionIdFor(rid) ==
  IF rid \in {NoId, ""} THEN GeneratedIds \ (issued \cup {ui.session_id}) ELSE {rid}

(***************************************************************************)
(* Chat API Service: handlers that run without suspension.                 *)
(***************************************************************************)
\* startup_event: builds the service, or raises and aborts the launch
startup_event(svc) ==
  /\ app = "serving"
  /\ rag_service = None
  /\ \/ rag_service' = svc /\ app' = app
     \/ rag_service' = None /\ app' = "aborted"
  /\ UNCHANGED <<chat_sessions, heap, streams, resp, nreq, seen, appended>>

\* GET /
root ==
  Ok("root", NoId,
     [rag_initialized |-> rag_service # None,
      active_sessions |-> Cardinality({sid \in SessionIds : chat_sessions[sid] # NoRef})],
     None)

Root ==
  /\ app = "serving"
  /\ resp' = root
  /\ UNCHANGED <<app, rag_service, chat_sessions, heap, streams, nreq, seen, appended>>

RECURSIVE SumCounts(_)
SumCounts(S) ==
  IF S = {} THEN 0
  ELSE LET sid == CHOOSE x \in S : TRUE
       IN heap[chat_sessions[sid]].message_count + SumCounts(S \ {sid})

\* variant: rag_enabled defaults to true
health_check_default_on ==
  Ok("health", NoId,
     [initialized |-> rag_service # None,
      rag_enabled |-> IF rag_service # None THEN rag_service.rag_resources ELSE TRUE,
      model_initialized |-> IF rag_service # None THEN rag_service.model ELSE FALSE,
      active_count |-> Cardinality({sid \in SessionIds : chat_sessions[sid] # NoRef}),
      total_messages |-> SumCounts({sid \in SessionIds : chat_sessions[sid] # NoRef})],
     None)

\* GET /health
health_check ==
  Ok("health", NoId,
     [initialized |-> rag_service # None,
      rag_enabled |-> IF rag_service # None THEN rag_service.rag_resources ELSE FALSE,
      model_initialized |-> IF rag_service # None THEN rag_service.model ELSE FALSE,
      active_count |-> Cardinality({sid \in SessionIds : chat_sessions[sid] # NoRef}),
      total_messages |-> SumCounts({sid \in SessionIds : chat_sessions[sid] # NoRef})],
     None)

Health ==
  /\ app = "serving"
  /\ resp' = health_check
  /\ UNCHANGED <<app, rag_service, chat_sessions, heap, streams, nreq, seen, appended>>

\* GET /sessions/{session_id}
get_session(session_id) ==
  IF chat_sessions[session_id] = NoRef
  THEN HTTPException("get", session_id, 404)
  ELSE LET session == heap[chat_sessions[session_id]] IN
       Ok("get", session_id,
          [message_count |-> session.message_count,
           summary |-> session.summary,
           messages |-> LastN(session.messages, HistoryPage)],
          None)

GetSession(session_id) ==
  /\ app = "serving"
  /\ resp' = get_session(session_id)
  /\ UNCHANGED <<app, rag_service, chat_sessions, heap, streams, nreq, seen, appended>>

\* GET /sessions
list_sessions ==
  LET ids == {sid \in SessionIds : chat_sessions[sid] # NoRef} IN
  Ok("list", NoId,
     [total_sessions |-> Cardinality(ids),
      sessions |-> [sid \in ids |->
                      [message_count |-> heap[chat_sessions[sid]].message_count,
                       has_summary |-> heap[chat_sessions[sid]].summary # <<>>]]],
     None)

ListSessions ==
  /\ app = "serving"
  /\ resp' = list_sessions
  /\ UNCHANGED <<app, rag_service, chat_sessions, heap, streams, nreq, seen, appended>>

\* variant: the whole store is cleared
delete_session_clearing(session_id) ==
  /\ app = "serving"
  /\ IF chat_sessions[session_id] = NoRef
     THEN /\ resp' = HTTPException("delete", session_id, 404)
          /\ UNCHANGED <<chat_sessions, heap, appended>>
     ELSE /\ chat_sessions' = [sid \in SessionIds |-> NoRef]
          /\ heap' = Collect(heap, chat_sessions', streams)
          /\ appended' = [sid \in SessionIds |-> 0]
          /\ resp' = Ok("delete", session_id, None, None)
  /\ UNCHANGED <<app, rag_service, streams, nreq, seen>>

\* DELETE /sessions/{session_id}
delete_session(session_id) ==
  /\ app = "serving"
  /\ IF chat_sessions[session_id] = NoRef
     THEN /\ resp' = HTTPException("delete", session_id, 404)
          /\ UNCHANGED <<chat_sessions, heap, appended>>
     ELSE /\ chat_sessions' = [chat_sessions EXCEPT ![session_id] = NoRef]
          /\ heap' = Collect(heap, chat_sessions', streams)
          /\ appended' = [appended EXCEPT ![session_id] = 0]
          /\ resp' = Ok("delete", session_id, None, None)
  /\ UNCHANGED <<app, rag_service, streams, nreq, seen>>

\* variant: the turn list is pruned as after a periodic summarization
force_summarize_session_pruning(session_id, summ) ==
  /\ app = "serving"
  /\ IF chat_sessions[session_id] = NoRef
     THEN /\ resp' = HTTPException("summarize", session_id, 404)
          /\ UNCHANGED heap
     ELSE IF rag_service = None
     THEN /\ resp' = HTTPException("summarize", session_id, 500)
          /\ UNCHANGED heap
     ELSE LET o == chat_sessions[session_id]
              summary == summarize_conversation(rag_service, heap[o].messages, summ)
          IN /\ heap' = [heap EXCEPT ![o].summary = summary,
                                     ![o].messages = LastN(@, KeepAfterSummary)]
             /\ resp' = Ok("summarize", session_id,
                           [summary |-> summary, message_count |-> heap[o].message_count],
                           [failed |-> summ.raise, input |-> heap[o].messages])
  /\ UNCHANGED <<app, rag_service, chat_sessions, streams, nreq, seen, appended>>

\* POST /sessions/{session_id}/summarize; the note holds the turn list handed
\* to summarize_conversation
force_summarize_session(session_id, summ) ==
  /\ app = "serving"
  /\ IF chat_sessions[session_id] = NoRef
     THEN /\ resp' = HTTPException("summarize", session_id, 404)
          /\ UNCHANGED heap
     ELSE IF rag_service = None
     THEN \* None.summarize_conversation raises; the handler answers 500
          /\ resp' = HTTPException("summarize", session_id, 500)
          /\ UNCHANGED heap
     ELSE LET o == chat_sessions[session_id]
              summary == summarize_conversation(rag_service, heap[o].messages, summ)
          IN /\ heap' = [heap EXCEPT ![o].summary = summary]
             /\ resp' = Ok("summarize", session_id,
                           [summary |-> summary, message_count |-> heap[o].message_count],
                           [failed |-> summ.raise, input |-> heap[o].messages])
  /\ UNCHANGED <<app, rag_service, chat_sessions, streams, nreq, seen, appended>>

\* POST /chat
chat_endpoint(rid, message, use_rag, retr, gen, summ) ==
  /\ app = "serving"
  /\ IF rag_service = None
     THEN /\ resp' = HTTPException("chat", NoId, 500)
          /\ UNCHANGED <<chat_sessions, heap, nreq, seen, appended>>
     ELSE /\ \E session_id \in SessionIdFor(rid) :
               LET known == chat_sessions[session_id] # NoRef
                   o == IF known THEN chat_sessions[session_id] ELSE Alloc(heap)
                   session == IF known THEN heap[o] ELSE NewSession
                   out == chat_with_history(rag_service, session, use_rag, retr, gen, summ)
                   updated == Updated(out.session_data, message, out.response)
               IN /\ chat_sessions' = [chat_sessions EXCEPT ![session_id] = o]
                  /\ heap' = [heap EXCEPT ![o] = updated]
                  /\ resp' = Ok("chat", session_id,
                                [response |-> out.response,
                                 message_count |-> updated.message_count,
                                 used_rag |-> use_rag,
                                 context_used |-> Excerpt(out.context)],
                                [context |-> out.context, gen_failed |-> gen.raise,
                                 summarized |-> out.summarized])
                  /\ nreq' = nreq + 1
                  /\ seen' = seen \cup {session_id}
                  /\ appended' = [appended EXCEPT ![session_id] = @ + 1]
  /\ UNCHANGED <<app, rag_service, streams>>

(***************************************************************************)
(* POST /chat/stream.  The handler returns a StreamingResponse at once;    *)
(* generate_stream then runs from one yielded frame to the next, and       *)
(* other requests are handled while it is suspended at a yield.            *)
(***************************************************************************)
ChunkFrame(content, session_id) ==
  [type |-> "chunk", content |-> content, session_id |-> session_id]
MetadataFrame(session_id, message_count, context_used) ==
  [type |-> "metadata", session_id |-> session_id, message_count |-> message_count,
   context_used |-> context_used]
DoneFrame == [type |-> "done"]
ErrorFrame(e) == [type |-> "error", error |-> e]

\* chat_with_history_stream: text of one provider chunk, from chunk.text or
\* else from the parts of its candidates
chunk_text(chunk) == IF chunk.text # <<>> THEN chunk.text ELSE Concat(chunk.parts)

\* the chunks without text at the head of the provider's stream
RECURSIVE LeadingEmpty(_)
LeadingEmpty(pending) ==
  IF pending # <<>> /\ chunk_text(Head(pending)) = <<>>
  THEN 1 + LeadingEmpty(Tail(pending)) ELSE 0

\* what the provider's stream does until chat_with_history_stream next yields
\* or leaves its loop: it delivers chunks without text (skipped), and then a
\* chunk with text, the end of the stream, or, at any point, an exception
Pulls(pending) ==
  LET n == LeadingEmpty(pending) IN
  {[kind |-> "raise", skipped |-> k] : k \in 0..n}
  \cup {[kind |-> IF Len(pending) > n THEN "chunk" ELSE "end", skipped |-> n]}

\* variant: the session is stored when the request arrives
chat_stream_endpoint_storing(r, rid, message, use_rag) ==
  /\ app = "serving"
  /\ IF rag_service = None
     THEN /\ resp' = HTTPException("stream", NoId, 500)
          /\ UNCHANGED <<heap, streams, nreq, chat_sessions>>
     ELSE /\ streams[r].pc = "idle"
          /\ \A q \in StreamIds : q < r => streams[q].pc # "idle"
          /\ \E session_id \in SessionIdFor(rid) :
               LET known == chat_sessions[session_id] # NoRef
                   o == IF known THEN chat_sessions[session_id] ELSE Alloc(heap)
               IN /\ heap' = IF known THEN heap ELSE [heap EXCEPT ![o] = NewSession]
                  /\ chat_sessions' = [chat_sessions EXCEPT ![session_id] = o]
                  /\ streams' = [streams EXCEPT ![r] =
                                   [IdleStream EXCEPT !.pc = "start",
                                                      !.session_id = session_id,
                                                      !.session = o,
                                                      !.message = message,
                                                      !.use_rag = use_rag]]
                  /\ resp' = Ok("stream", session_id, None, None)
                  /\ nreq' = nreq + 1
  /\ UNCHANGED <<app, rag_service, seen, appended>>

\* the handler proper: lines 112-122 and the return of the StreamingResponse
chat_stream_endpoint(r, rid, message, use_rag) ==
  /\ app = "serving"
  /\ IF rag_service = None
     THEN /\ resp' = HTTPException("stream", NoId, 500)
          /\ UNCHANGED <<heap, streams, nreq>>
     ELSE /\ streams[r].pc = "idle"
          /\ \A q \in StreamIds : q < r => streams[q].pc # "idle"
          /\ \E session_id \in SessionIdFor(rid) :
               LET known == chat_sessions[session_id] # NoRef
                   o == IF known THEN chat_sessions[session_id] ELSE Alloc(heap)
               IN /\ heap' = IF known THEN heap ELSE [heap EXCEPT ![o] = NewSession]
                  /\ streams' = [streams EXCEPT ![r] =
                                   [IdleStream EXCEPT !.pc = "start",
                                                      !.session_id = session_id,
                                                      !.session = o,
                                                      !.message = message,
                                                      !.use_rag = use_rag]]
                  /\ resp' = Ok("stream", session_id, None, None)
                  /\ nreq' = nreq + 1
  /\ UNCHANGED <<app, rag_service, chat_sessions, seen, appended>>

\* generate_stream, lines 143-157: append the turn, store the session, and
\* yield the metadata frame; st is the stream and sd its session dict as
\* chat_with_history_stream left them.  The locals that are not read again
\* are cleared; rag_context is kept as history, what was retrieved.
Bookkeeping(r, st, sd) ==
  LET o == st.session
      updated == Updated(sd, st.message, st.full_response)
  IN /\ chat_sessions' = [chat_sessions EXCEPT ![st.session_id] = o]
     /\ streams' = [streams EXCEPT ![r] =
                      [st EXCEPT !.pc = "meta",
                                 !.session = NoRef,
                                 !.message = <<>>,
                                 !.full_response = <<>>,
                                 !.context_used = <<>>,
                                 !.pending = <<>>,
                                 !.frames = Append(@, MetadataFrame(st.session_id,
                                                        updated.message_count,
                                                        Excerpt(st.context_used)))]]
     /\ heap' = Collect([heap EXCEPT ![o] = updated], chat_sessions', streams')
     /\ seen' = seen \cup {st.session_id}
     /\ appended' = [appended EXCEPT ![st.session_id] = @ + 1]

\* variant: the chunk is put in front of the text received so far
Received_in_front(st, chunk, context) ==
  [st EXCEPT !.context_used = IF context # <<>> /\ @ = <<>> THEN context ELSE @,
             !.full_response = chunk \o @,
             !.frames = Append(@, ChunkFrame(chunk, st.session_id))]

\* generate_stream receives the pair (chunk, context) and yields a chunk frame
Received(st, chunk, context) ==
  [st EXCEPT !.context_used = IF context # <<>> /\ @ = <<>> THEN context ELSE @,
             !.full_response = @ \o chunk,
             !.frames = Append(@, ChunkFrame(chunk, st.session_id))]

\* chat_with_history_stream resumes in its loop over stream_response (lines
\* 252-275) and generate_stream runs up to its next yield
Iterate(r, st, p, summ) ==
    LET got == [st EXCEPT !.delivered = @ \o SubSeq(st.pending, 1, p.skipped),
                          !.pending = SubSeq(@, p.skipped + 1, Len(@))]
    IN
    CASE p.kind = "chunk" ->
           /\ streams' = [streams EXCEPT ![r] =
                            [Received(got, chunk_text(Head(got.pending)), st.rag_context)
                               EXCEPT !.pc = "iter",
                                      !.delivered = Append(@, Head(got.pending)),
                                      !.pending = Tail(@)]]
           /\ UNCHANGED <<chat_sessions, heap, seen, appended>>
      [] p.kind = "raise" ->
           /\ streams' = [streams EXCEPT ![r] =
                            [Received(got, ErrorMarker(ExcText), <<>>)
                               EXCEPT !.pc = "marker", !.failed = TRUE, !.pending = <<>>]]
           /\ UNCHANGED <<chat_sessions, heap, seen, appended>>
      [] p.kind = "end" ->
           LET sd == heap[st.session] IN
           IF should_summarize(rag_service, sd)
           THEN LET summary == summarize_conversation(rag_service, sd.messages, summ) IN
                  Bookkeeping(r, [got EXCEPT !.summarized = [called |-> TRUE, text |-> summary]],
                              IF summary # <<>>
                              THEN [sd EXCEPT
                                      !.summary = summary,
                                      !.messages = LastN(sd.messages, KeepAfterSummary)]
                              ELSE sd)
           ELSE Bookkeeping(r, got, sd)

\* first resumption of generate_stream: chat_with_history_stream runs from its
\* start (lines 219-249) into the loop; use_rag is not read again
StreamBegin(r, retr, script, p, summ) ==
  /\ streams[r].pc = "start"
  /\ LET st == streams[r] IN
     IF ~rag_service.model
     THEN /\ streams' = [streams EXCEPT ![r] =
                           [Received(st, NotInitializedMarker, <<>>)
                              EXCEPT !.pc = "marker", !.use_rag = FALSE]]
          /\ UNCHANGED <<chat_sessions, heap, seen, appended>>
     ELSE /\ p \in Pulls(script)
          /\ Iterate(r, [st EXCEPT !.rag_context =
                                     IF st.use_rag /\ rag_service.rag_resources
                                     THEN retrieve_rag_context(rag_service, retr)
                                     ELSE <<>>,
                                   !.use_rag = FALSE,
                                   !.pending = script],
                     p, summ)
  /\ UNCHANGED <<app, rag_service, resp, nreq>>

\* resumption after a chunk frame
StreamNext(r, p, summ) ==
  /\ streams[r].pc = "iter"
  /\ p \in Pulls(streams[r].pending)
  /\ Iterate(r, streams[r], p, summ)
  /\ UNCHANGED <<app, rag_service, resp, nreq>>

\* resumption after the frame of an error marker: chat_with_history_stream
\* returns (line 221, or the end of the except block at 275)
StreamAfterMarker(r) ==
  /\ streams[r].pc = "marker"
  /\ Bookkeeping(r, streams[r], heap[streams[r].session])
  /\ UNCHANGED <<app, rag_service, resp, nreq>>

\* variant: the done frame is yielded twice
StreamDone_twice(r) ==
  /\ streams[r].pc = "meta"
  /\ streams' = [streams EXCEPT ![r] =
                   [@ EXCEPT !.pc = "done", !.frames = @ \o <<DoneFrame, DoneFrame>>]]
  /\ UNCHANGED <<app, rag_service, chat_sessions, heap, resp, nreq, seen, appended>>

\* resumption after the metadata frame: yield the done frame (line 158)
StreamDone(r) ==
  /\ streams[r].pc = "meta"
  /\ streams' = [streams EXCEPT ![r] = [@ EXCEPT !.pc = "done", !.frames = Append(@, DoneFrame)]]
  /\ UNCHANGED <<app, rag_service, chat_sessions, heap, resp, nreq, seen, appended>>

\* resumption after the last frame: generate_stream returns, the response is
\* complete and its locals are gone
StreamClose(r) ==
  /\ streams[r].pc \in {"done", "error"}
  /\ streams' = [streams EXCEPT ![r] = [IdleStream EXCEPT !.pc = "closed"]]
  /\ UNCHANGED <<app, rag_service, chat_sessions, heap, resp, nreq, seen, appended>>

(***************************************************************************)
(* Scheduling.  The event loop runs a handler, or a stream from one yield  *)
(* to the next, without preemption, and may pick any of them next.  The    *)
(* model explores every schedule with at most MaxSwitches switches away    *)
(* from a stream that is in flight.                                        *)
(***************************************************************************)
InFlight(st) == st.pc \notin {"idle", "closed"}

\* the step is taken by stream slot x, or by a handler (x = 0)
Sched(x) ==
  /\ IF cur # 0 /\ cur # x
     THEN switches < MaxSwitches /\ switches' = switches + 1
     ELSE switches' = switches
  /\ LET c == IF x # 0 THEN x ELSE cur
     IN cur' = IF c # 0 /\ InFlight(streams'[c]) THEN c ELSE 0

\* a step of the service for a client other than the UI
Run(x) == Sched(x) /\ UNCHANGED ui

\* the outcomes to draw for a provider call: those given when the call is
\* made, and otherwise the single outcome Raise, which is never looked at
RetrievalCalls(use_rag, retrs) ==
  IF rag_service # None /\ rag_service.rag_resources /\ use_rag THEN retrs ELSE {Raise}
SummaryCalls(session, summs) ==
  IF rag_service # None /\ session # NoRef /\ should_summarize(rag_service, heap[session])
  THEN summs ELSE {Raise}

\* one step of the service with the configuration and the provider's outcomes
\* drawn from the given sets: ids are the session ids clients name, slots the
\* stream slots in use, limit the number of chat requests accepted
ManagementStep(svcs, ids, summs) ==
  \/ \E svc \in svcs : startup_event(svc) /\ Run(0)
  \/ \E sid \in ids, summ \in summs : force_summarize_session(sid, summ) /\ Run(0)
  \/ \E sid \in ids : delete_session(sid) /\ Run(0)

ChatStep(rids, limit, retrs, gens, summs) ==
  /\ nreq < limit
  /\ \E rid \in rids, m \in Messages, u \in BOOLEAN, gen \in gens :
       \E retr \in RetrievalCalls(u, retrs),
          summ \in SummaryCalls(IF rid \in SessionIds /\ ~gen.raise
                                THEN chat_sessions[rid] ELSE NoRef, summs) :
         chat_endpoint(rid, m, u, retr, gen, summ) /\ Run(0)

StreamRequestStep(slots, rids, limit) ==
  /\ nreq < limit
  /\ \E r \in slots, rid \in rids, m \in Messages, u \in BOOLEAN :
       chat_stream_endpoint(r, rid, m, u) /\ Run(0)

HandlerStep(svcs, ids, rids, slots, limit, retrs, gens, summs) ==
  \/ ManagementStep(svcs, ids, summs)
  \/ ChatStep(rids, limit, retrs, gens, summs)
  \/ StreamRequestStep(slots, rids, limit)

\* one step of a streaming response
StreamStep(slots, retrs, summs, scripts, kinds) ==
  \/ \E r \in slots, script \in scripts :
       \E retr \in RetrievalCalls(streams[r].use_rag, retrs),
          summ \in SummaryCalls(streams[r].session, summs),
          p \in {x \in Pulls(script) : x.kind \in kinds} :
         StreamBegin(r, retr, script, p, summ) /\ Run(r)
  \/ \E r \in slots :
       \E summ \in SummaryCalls(streams[r].session, summs),
          p \in {x \in Pulls(streams[r].pending) : x.kind \in kinds} :
         StreamNext(r, p, summ) /\ Run(r)
  \/ \E r \in slots : StreamAfterMarker(r) /\ Run(r)
  \/ \E r \in slots : StreamDone(r) /\ Run(r)
  \/ \E r \in slots : StreamClose(r) /\ Run(r)

Step(svcs, ids, rids, slots, limit, retrs, gens, summs, scripts, kinds) ==
  \/ HandlerStep(svcs, ids, rids, slots, limit, retrs, gens, summs)
  \/ StreamStep(slots, retrs, summs, scripts, kinds)

\* the read-only endpoints
Reads ==
  \/ Root /\ Run(0)
  \/ Health /\ Run(0)
  \/ ListSessions /\ Run(0)
  \/ \E sid \in SessionIds : GetSession(sid) /\ Run(0)

PullKinds == {"chunk", "end", "raise"}

(***************************************************************************)
(* The service with every endpoint and one streaming request at a time,    *)
(* interleaved with the other requests.                                    *)
(***************************************************************************)
SoloSlots == {1}
\* configured to summarize after every turn
EagerServices == {svc \in Services : svc.summarize_threshold = 1}

Next ==
  \/ Reads
  \/ Step(EagerServices, ClientIds, RequestIds, SoloSlots, MaxRequests, RetrievalOutcomes,
          GenerationOutcomes, SummaryOutcomes, StreamScripts, PullKinds)

Spec == Init /\ [][Next]_vars

(***************************************************************************)
(* Long conversations: the requests of one client on one session, handled  *)
(* one at a time (a stream ends before the next request is handled).       *)
(***************************************************************************)
DeepRetrievals == {[raise |-> FALSE, contexts |-> <<Txt(100), Txt(99)>>]}
DeepScripts == {<<TextIncrement>>}
DeepServices == {svc \in Services : svc.rag_resources /\ svc.summarize_threshold > 1}

\* a request is handled only when no streaming response is in flight
NextDeep ==
  \/ /\ \A r \in SoloSlots : ~InFlight(streams[r])
     /\ HandlerStep(DeepServices, ClientIds, ClientIds, SoloSlots, MaxDeepRequests,
                    DeepRetrievals, GenerationOutcomes, SummaryOutcomes)
  \/ StreamStep(SoloSlots, DeepRetrievals, SummaryOutcomes, DeepScripts, PullKinds)

SpecDeep == Init /\ [][NextDeep]_vars

(***************************************************************************)
(* Fairness: the server keeps sending a streaming response, that is, a     *)
(* generator that can resume eventually does.                              *)
(***************************************************************************)
NextLive ==
  Step(EagerServices, ClientIds, ClientIds, SoloSlots, MaxRequests, DeepRetrievals,
       GenerationOutcomes, SummaryOutcomes, StreamScripts, PullKinds)

SpecLive ==
  /\ Init /\ [][NextLive]_vars
  /\ WF_vars(StreamStep(SoloSlots, DeepRetrievals, SummaryOutcomes, StreamScripts, PullKinds))

(***************************************************************************)
(* Two streaming requests at a time: chat requests are handled before the  *)
(* first streaming request arrives, and the two streams then interleave.   *)
(***************************************************************************)
OverlapSlots == {1, 2}

NextOverlap ==
  \/ \E svc \in EagerServices : startup_event(svc) /\ Run(0)
  \/ /\ \A r \in OverlapSlots : streams[r].pc = "idle"
     /\ ChatStep(ClientIds, MaxRequests, DeepRetrievals, GenerationOutcomes, SummaryOutcomes)
  \/ StreamRequestStep(OverlapSlots, ClientIds, MaxRequests + 1)
  \/ StreamStep(OverlapSlots, DeepRetrievals, SummaryOutcomes, DeepScripts, PullKinds)

SpecOverlap == Init /\ [][NextOverlap]_vars

(***************************************************************************)
(* Requests handled one at a time, with a provider whose summarization     *)
(* always returns text, and every threshold.                               *)
(***************************************************************************)
TextSummaries == {out \in SummaryOutcomes : ~out.raise /\ strip(out.text) # <<>>}
WithResources == {svc \in Services : svc.rag_resources}

NextBounded ==
  \/ /\ \A r \in SoloSlots : ~InFlight(streams[r])
     /\ HandlerStep(WithResources, ClientIds, ClientIds, SoloSlots, MaxDeepRequests,
                    DeepRetrievals, GenerationOutcomes, TextSummaries)
  \/ StreamStep(SoloSlots, DeepRetrievals, TextSummaries, DeepScripts, PullKinds)

SpecBounded == Init /\ [][NextBounded]_vars

(***************************************************************************)
(* The session endpoints with every threshold and two sessions, one named  *)
(* by its client and one with a generated id; no streaming.                *)
(***************************************************************************)
NextSummarize ==
  \/ ManagementStep(Services, SessionIds, SummaryOutcomes)
  \/ ChatStep(RequestIds, MaxRequests + 1, DeepRetrievals, GenerationOutcomes,
              SummaryOutcomes)

SpecSummarize == Init /\ [][NextSummarize]_vars

(***************************************************************************)
(* The functions of the service and of the prompt library, called on their *)
(* own: the response slot holds the call and then what it returned.        *)
(***************************************************************************)
Call(fn, args) == [op |-> "call", fn |-> fn, args |-> args]
Return(call, result) ==
  [op |-> "return", fn |-> call.fn, args |-> call.args, result |-> result]

\* session dicts with and without the message_count key
CountedSessions ==
  {[messages |-> <<>>, summary |-> <<>>, message_count |-> c] : c \in 0..MaxCount}
    \cup {[messages |-> <<>>, summary |-> <<>>]}

\* services by their history window
WindowServices ==
  [model : {TRUE}, rag_resources : {TRUE}, summarize_threshold : {summarize_threshold},
   max_history_length : 1..MaxWindow]

\* the turns of a session: turn i asks Txt(i)
Turns(k) == [i \in 1..k |-> Turn(Txt(i), <<"a">> \o Txt(i))]

\* session dicts with and without a summary, and one without the keys
ContextSessions ==
  {[messages |-> Turns(k), summary |-> s, message_count |-> k] :
     k \in 0..MaxTurns, s \in {<<>>, <<"s">>}}
    \cup {[message_count |-> 0]}

\* arguments of the prompt functions
UserMessages == {<<>>, <<"q">>, <<"q", "\n", "q">>}
RagContexts == {<<>>, <<"k">>, <<"k", "\n", "\n", "k">>}
ConversationContexts ==
  {build_conversation_context(svc, sd) : svc \in WindowServices, sd \in ContextSessions}

\* services with and without a retrieval resource
PromptServices ==
  [model : {TRUE}, rag_resources : BOOLEAN, summarize_threshold : {summarize_threshold},
   max_history_length : {MaxWindow}]

\* what rag.retrieval_query does, a corpus returning more than
\* max_context_length characters included
PromptRetrievals ==
  RetrievalOutcomes
    \cup {[raise |-> FALSE, contexts |-> <<Txt(max_context_length), Txt(2)>>]}

\* sessions on which no summarization is due
PromptSessions ==
  {[messages |-> Turns(k), summary |-> s, message_count |-> k] :
     k \in {0, 2}, s \in {<<>>, <<"s">>}}

FunctionCalls ==
  {Call("_should_summarize", [svc |-> svc, session_data |-> sd]) :
     svc \in Services, sd \in CountedSessions}
    \cup {Call("chat_with_history",
                [svc |-> svc, message |-> <<"q">>, session_data |-> sd, use_rag |-> u,
                 retr |-> retr, gen |-> gen]) :
            svc \in PromptServices, sd \in PromptSessions, u \in BOOLEAN,
            retr \in PromptRetrievals, gen \in GenerationOutcomes}
    \cup {Call("get_rag_chat_prompt",
                [user_message |-> m, rag_context |-> k, conversation_context |-> c]) :
            m \in UserMessages, k \in RagContexts, c \in ConversationContexts}
    \cup {Call("get_chat_prompt", [user_message |-> m, conversation_context |-> c]) :
            m \in UserMessages, c \in ConversationContexts}
    \cup {Call("_build_conversation_context", [svc |-> svc, session_data |-> sd]) :
            svc \in WindowServices, sd \in ContextSessions}

InitFunctions ==
  /\ app = "serving"
  /\ rag_service = None
  /\ chat_sessions = [sid \in SessionIds |-> NoRef]
  /\ heap = [o \in ObjIds |-> None]
  /\ streams = [r \in StreamIds |-> IdleStream]
  /\ resp \in FunctionCalls
  /\ nreq = 0
  /\ seen = {}
  /\ appended = [sid \in SessionIds |-> 0]
  /\ cur = 0
  /\ switches = 0
  /\ ui = InitialUi

Returns(fn, result) ==
  /\ resp.op = "call" /\ resp.fn = fn
  /\ resp' = Return(resp, result)
  /\ UNCHANGED <<app, rag_service, chat_sessions, heap, streams, nreq, seen, appended,
                 cur, switches, ui>>

ShouldSummarizeCall ==
  Returns("_should_summarize", should_summarize(resp.args.svc, resp.args.session_data))

BuildConversationContextCall ==
  Returns("_build_conversation_context",
          build_conversation_context(resp.args.svc, resp.args.session_data))

GetRagChatPromptCall ==
  Returns("get_rag_chat_prompt",
          get_rag_chat_prompt(resp.args.user_message, resp.args.rag_context,
                              resp.args.conversation_context))

GetChatPromptCall ==
  Returns("get_chat_prompt",
          get_chat_prompt(resp.args.user_message, resp.args.conversation_context))

ChatWithHistoryCall ==
  Returns("chat_with_history",
          LET a == resp.args
          IN [final |-> final_prompt(a.svc, a.message, a.session_data, a.use_rag, a.retr),
              out |-> chat_with_history(a.svc, a.session_data, a.use_rag, a.retr, a.gen,
                                        Raise)])

NextFunctions ==
  \/ ChatWithHistoryCall
  \/ GetRagChatPromptCall
  \/ GetChatPromptCall
  \/ ShouldSummarizeCall
  \/ BuildConversationContextCall

SpecFunctions == InitFunctions /\ [][NextFunctions]_vars

(***************************************************************************)
(* Chat Client UI (app.py).  One browser session: its session id and its   *)
(* message list.  A script run is one action; the metadata stored with an  *)
(* assistant message and the timestamps are only displayed and are left    *)
(* out.  A request of the UI is refused (it never reaches the API: the     *)
(* connection fails), lost (the API handles it, the response does not      *)
(* arrive: timeout or dropped connection) or answered.                     *)
(***************************************************************************)
server == <<app, rag_service, chat_sessions, heap, streams, resp, nreq, seen, appended>>

Transports == {"refused", "lost", "answered"}

\* requests.post / requests.delete: the API runs the handler unless refused
\* it can, when the UI's client is bound to its URL
ClientCall(how, handler) ==
  /\ ui.chat_client # API_BASE_URL => how = "refused"
  /\ IF how = "refused"
     THEN UNCHANGED <<server, cur, switches>>
     ELSE handler /\ Sched(0)

\* str(uuid.uuid4()) in the UI: an id nobody has used
UiFresh == GeneratedIds \ (issued \cup {ui.session_id})

\* main, lines 195-248, with ChatClient.send_message: the prompt is appended,
\* the request sent, and the answer appended if one arrived with status 200
UISend(message, use_rag, how, retr, gen, summ) ==
  /\ Len(ui.messages) + 2 <= MaxUiMessages
  /\ how # "refused" => nreq < MaxRequests
  /\ ClientCall(how, chat_endpoint(ui.session_id, message, use_rag, retr, gen, summ))
  /\ LET asked == Append(ui.messages, [role |-> "user", content |-> message])
         status == IF how = "refused" THEN 0 ELSE resp'.status
         last == [action |-> "send", how |-> how, status |-> status,
                  url |-> ui.chat_client]
     IN IF how = "answered" /\ status = 200
        THEN ui' = [ui EXCEPT
                      !.session_id = resp'.session_id,
                      !.messages = Append(asked, [role |-> "assistant",
                                                  content |-> resp'.body.response]),
                      !.last = last]
        ELSE ui' = [ui EXCEPT !.messages = asked, !.last = last]

\* variant: the local state is reset whatever the DELETE answered
UIClearChat_always(how) ==
  /\ ClientCall(how, delete_session(ui.session_id))
  /\ LET status == IF how = "refused" THEN 0 ELSE resp'.status
     IN \E id \in UiFresh :
          ui' = [ui EXCEPT
                   !.session_id = id, !.messages = <<>>,
                   !.last = [action |-> "clear", how |-> how, status |-> status,
                             url |-> ui.chat_client]]

\* display_sidebar, lines 116-120, with ChatClient.delete_session
UIClearChat(how) ==
  /\ ClientCall(how, delete_session(ui.session_id))
  /\ LET status == IF how = "refused" THEN 0 ELSE resp'.status
         last == [action |-> "clear", how |-> how, status |-> status,
                  url |-> ui.chat_client]
     IN IF how = "answered" /\ status = 200
        THEN \E id \in UiFresh :
               ui' = [ui EXCEPT !.session_id = id, !.messages = <<>>, !.last = last]
        ELSE ui' = [ui EXCEPT !.last = last]

\* variant: New session also deletes the previous session on the API
UINewSession_deleting ==
  /\ \E id \in UiFresh :
       ui' = [ui EXCEPT
                !.session_id = id, !.messages = <<>>,
                !.last = [action |-> "new", how |-> "none", status |-> 0, url |-> "none"]]
  /\ app = "serving"
  /\ chat_sessions' = [chat_sessions EXCEPT ![ui.session_id] = NoRef]
  /\ heap' = Collect(heap, chat_sessions', streams)
  /\ appended' = [appended EXCEPT ![ui.session_id] = 0]
  /\ UNCHANGED <<app, rag_service, streams, resp, nreq, seen, cur, switches>>

\* display_sidebar, lines 123-126
UINewSession ==
  /\ \E id \in UiFresh :
       ui' = [ui EXCEPT
                !.session_id = id, !.messages = <<>>,
                !.last = [action |-> "new", how |-> "none", status |-> 0, url |-> "none"]]
  /\ UNCHANGED <<server, cur, switches>>

\* the URLs the API URL field is set to; nothing answers at the other one
Urls == {API_BASE_URL, "http://other:8000"}

\* display_sidebar, lines 159-161: the field is edited and the script runs;
\* every later run finds the field as it is and binds the same client again
UIEditUrl(url) ==
  /\ url # ui.api_url
  /\ ui' = [ui EXCEPT
              !.api_url = url,
              !.chat_client = IF url # API_BASE_URL THEN url ELSE @,
              !.last = [action |-> "edit", how |-> "none", status |-> 0, url |-> "none"]]
  /\ UNCHANGED <<server, cur, switches>>

\* one action of the UI
UIStep(retrs, gens, summs) ==
  \/ \E m \in Messages, u \in BOOLEAN, how \in Transports, gen \in gens :
       \E retr \in RetrievalCalls(u /\ how # "refused", retrs),
          summ \in SummaryCalls(IF how # "refused" /\ ~gen.raise
                                THEN chat_sessions[ui.session_id] ELSE NoRef, summs) :
         UISend(m, u, how, retr, gen, summ)
  \/ \E how \in Transports : UIClearChat(how)
  \/ UINewSession

(***************************************************************************)
(* The UI together with the service and its other clients, none of them    *)
(* streaming.                                                              *)
(***************************************************************************)
NextUI ==
  \/ UIStep(DeepRetrievals, GenerationOutcomes, SummaryOutcomes)
  \/ Reads
  \/ ManagementStep(EagerServices, ClientIds, SummaryOutcomes)
  \/ ChatStep(ClientIds, MaxRequests, DeepRetrievals, GenerationOutcomes, SummaryOutcomes)

SpecUI == Init /\ [][NextUI]_vars

(***************************************************************************)
(* The UI with its API URL field, alone with the service.                  *)
(***************************************************************************)
NextSettings ==
  \/ \E url \in Urls : UIEditUrl(url)
  \/ UIStep(DeepRetrievals, GenerationOutcomes, SummaryOutcomes)
  \/ \E svc \in EagerServices : startup_event(svc) /\ Run(0)

SpecSettings == Init /\ [][NextSettings]_vars

(***************************************************************************)
(* The UI with the service and its other clients, which stream as well and *)
(* name any id but the one the UI holds (a uuid4 the UI has shown nobody). *)
(* The provider's streams do not fail and its summaries have text.         *)
(***************************************************************************)
OtherIds == (SessionIds \cup {NoId, ""}) \ {ui.session_id}
ClientServices == {svc \in EagerServices : svc.rag_resources}
DeliveredKinds == PullKinds \ {"raise"}

NextClients ==
  \/ \E svc \in ClientServices : startup_event(svc) /\ Run(0)
  \/ UIStep(DeepRetrievals, GenerationOutcomes, TextSummaries)
  \/ ChatStep(OtherIds, MaxRequests, DeepRetrievals, GenerationOutcomes, TextSummaries)
  \/ StreamRequestStep(SoloSlots, OtherIds, MaxRequests)
  \/ \E r \in SoloSlots, script \in DeepScripts :
       \E retr \in RetrievalCalls(streams[r].use_rag, DeepRetrievals),
          summ \in SummaryCalls(streams[r].session, TextSummaries),
          p \in {x \in Pulls(script) : x.kind \in DeliveredKinds} :
         StreamBegin(r, retr, script, p, summ) /\ Run(r)
  \/ \E r \in SoloSlots :
       \E summ \in SummaryCalls(streams[r].session, TextSummaries),
          p \in {x \in Pulls(streams[r].pending) : x.kind \in DeliveredKinds} :
         StreamNext(r, p, summ) /\ Run(r)
  \/ \E r \in SoloSlots : StreamDone(r) /\ Run(r)
  \/ \E r \in SoloSlots : StreamClose(r) /\ Run(r)

SpecClients == Init /\ [][NextClients]_vars

(***************************************************************************)
(* Properties.                                                             *)
(***************************************************************************)
Stored(sid) == chat_sessions[sid] # NoRef
Session(sid) == heap[chat_sessions[sid]]
Last(seq) == seq[Len(seq)]

\* the step is a POST /chat on sid answered with 200
ChatAnswered(sid) ==
  resp' # resp /\ resp'.op = "chat" /\ resp'.status = 200 /\ resp'.session_id = sid

\* the step is the one in which stream r appends its turn and stores its session
StreamStored(r) ==
  streams[r].pc \in {"start", "iter", "marker"} /\ streams'[r].pc = "meta"

AnyStreamInFlight == \E r \in StreamIds : InFlight(streams[r])

\* C1 as stated: an id that was never in the store answers 404 to GET, the
\* only step after which it does not is a POST /chat answered with 200, and
\* right after that step GET answers 200 with message_count = 1
C1_NotFoundUntilFirstChat ==
  [][\A sid \in SessionIds :
       sid \notin seen =>
         /\ get_session(sid).status = 404
         /\ get_session(sid)'.status # 404 => ChatAnswered(sid)
         /\ ChatAnswered(sid) =>
              /\ get_session(sid)'.status = 200
              /\ get_session(sid)'.body.message_count = 1]_vars

\* C1: an id that was never in the store answers 404 to GET; the only steps
\* after which it does not are a POST /chat answered with 200 and the step of a
\* POST /chat/stream on that id that stores its session; right after either,
\* GET answers 200 with message_count = 1
C1_NotFoundUntilFirstChatOrStream ==
  [][\A sid \in SessionIds :
       sid \notin seen =>
         LET byChat == ChatAnswered(sid)
             byStream == \E r \in StreamIds : StreamStored(r) /\ streams[r].session_id = sid
         IN /\ get_session(sid).status = 404
            /\ get_session(sid)'.status # 404 => byChat \/ byStream
            /\ byChat \/ byStream =>
                 /\ get_session(sid)'.status = 200
                 /\ get_session(sid)'.body.message_count = 1]_vars

\* a session that only a streaming request has written to
C1_Witness ==
  \E sid \in SessionIds :
    /\ resp.op = "stream" /\ resp.session_id = sid
    /\ get_session(sid).status = 200
    /\ get_session(sid).body.message_count = 1
    /\ appended[sid] = 1

\* C2: requests handled one at a time: a stored session's message_count is the
\* number of turns appended to it since it was created and is at least the
\* number of turns retained, and no step on a stored session decreases it
C2_CountIsTurnsAppended ==
  /\ [](\A sid \in SessionIds :
          Stored(sid) =>
            /\ Session(sid).message_count = appended[sid]
            /\ Session(sid).message_count >= Len(Session(sid).messages))
  /\ [][\A sid \in SessionIds :
          Stored(sid) /\ Stored(sid)' =>
            Session(sid)'.message_count >= Session(sid).message_count]_vars

\* turns were pruned and the count kept growing
C2_Witness ==
  \E sid \in SessionIds :
    /\ Stored(sid)
    /\ Session(sid).summary # <<>>
    /\ Session(sid).message_count = appended[sid]
    /\ Session(sid).message_count > Len(Session(sid).messages) + 1

\* what C3 says of a POST /chat on a stored session, with the number of turns
\* the list may hold after a summarization as a parameter
SummarizationTrigger(atMost) ==
  \A sid \in SessionIds :
    Stored(sid) /\ ChatAnswered(sid) =>
      LET before == Session(sid)
          after == Session(sid)'
          summarized == resp'.note.summarized
          due == before.message_count # 0
                   /\ before.message_count % rag_service.summarize_threshold = 0
      IN /\ due /\ summarized.called /\ summarized.text # <<>> =>
              /\ after.summary = summarized.text
              /\ Len(after.messages) <= atMost
         /\ due /\ ~resp'.note.gen_failed => summarized.called
         /\ ~due =>
              /\ ~summarized.called
              /\ after.summary = before.summary
              /\ Len(after.messages) = Len(before.messages) + 1
              /\ SubSeq(after.messages, 1, Len(before.messages)) = before.messages

\* C3 as stated: after the POST /chat that summarizes, the stored turn list has
\* at most 2 entries
C3_AtMostTwoTurnsLeft == [][SummarizationTrigger(2)]_vars

\* C3: a POST /chat on a stored session whose message_count is nonzero and
\* divisible by the threshold calls the summarization (unless the generation
\* failed), and when that yields text the summary is overwritten with it and
\* the stored list is the last 2 earlier turns followed by the new turn, at
\* most 3 entries; when the count is not divisible, the summary is unchanged and
\* the list only gains the new turn
C3_SummarizationTrigger ==
  [][/\ SummarizationTrigger(3)
     /\ \A sid \in SessionIds :
          Stored(sid) /\ ChatAnswered(sid) /\ resp'.note.summarized.text # <<>> =>
            LET before == Session(sid).messages
                after == Session(sid)'.messages
                kept == IF Len(before) > 2 THEN 2 ELSE Len(before)
            IN /\ Len(after) = kept + 1
               /\ \A i \in 1..kept : after[i] = before[Len(before) - kept + i]
               /\ Last(after).assistant = resp'.body.response]_vars

\* a POST /chat has just summarized a session of more than 2 turns
C3_Witness ==
  /\ resp.op = "chat" /\ resp.status = 200
  /\ resp.note.summarized.text # <<>>
  /\ Stored(resp.session_id)
  /\ Session(resp.session_id).summary = resp.note.summarized.text
  /\ Len(Session(resp.session_id).messages) = 3
  /\ Session(resp.session_id).message_count > 3

\* the step is a DELETE /sessions/{sid}
Deleted(sid) == resp' # resp /\ resp'.op = "delete" /\ resp'.session_id = sid

\* C4: with no streaming request in flight, DELETE on a stored id answers 200,
\* removes that id only, leaves every other session as it was, and GET on the
\* id then answers 404; DELETE on an id not in the store answers 404 and leaves
\* the store and its sessions unchanged
C4_DeleteRemovesExactlyOne ==
  [][\A sid \in SessionIds :
       Deleted(sid) /\ ~AnyStreamInFlight =>
         IF Stored(sid)
         THEN /\ resp'.status = 200
              /\ ~Stored(sid)'
              /\ get_session(sid)'.status = 404
              /\ \A other \in SessionIds \ {sid} :
                   /\ Stored(other)' = Stored(other)
                   /\ Stored(other) => Session(other)' = Session(other)
         ELSE /\ resp'.status = 404
              /\ chat_sessions' = chat_sessions
              /\ heap' = heap]_vars

\* a session was deleted while another one stays in the store
C4_Witness ==
  /\ resp.op = "delete" /\ resp.status = 200
  /\ ~Stored(resp.session_id)
  /\ resp.session_id \in seen
  /\ \E other \in SessionIds : Stored(other) /\ Session(other).message_count > 0
  /\ ~AnyStreamInFlight

\* contents of the chunk frames, in the order emitted
ChunkContents(frames) ==
  LET chunks == SelectSeq(frames, LAMBDA f : f.type = "chunk")
  IN [i \in 1..Len(chunks) |-> chunks[i].content]

\* texts of the increments that have one, in the order delivered
IncrementTexts(delivered) ==
  SelectSeq([i \in 1..Len(delivered) |-> chunk_text(delivered[i])], LAMBDA t : t # <<>>)

Emitting(st) == st.pc \in {"iter", "marker", "meta", "done"}

\* C5: at every point of a streaming response the chunk frames emitted so far
\* are the provider's non-empty increments delivered so far, one frame each and
\* in delivery order (followed by one frame with the error marker if the
\* provider's stream raised), and the assistant text of the turn the request
\* appends is the concatenation of the contents of its chunk frames
C5_ChunksAreIncrements ==
  /\ [](\A r \in StreamIds :
          Emitting(streams[r]) =>
            ChunkContents(streams[r].frames) =
              IncrementTexts(streams[r].delivered)
                \o (IF streams[r].failed THEN <<ErrorMarker(ExcText)>> ELSE <<>>))
  /\ [][\A r \in StreamIds :
          StreamStored(r) =>
            /\ Stored(streams[r].session_id)'
            /\ Last(Session(streams[r].session_id)'.messages).assistant =
                 Concat(ChunkContents(streams'[r].frames))]_vars

\* a stream has ended whose provider delivered a text, an empty increment and
\* a text in parts
C5_Witness ==
  \E r \in StreamIds :
    /\ streams[r].pc = "done"
    /\ ~streams[r].failed
    /\ streams[r].delivered = <<TextIncrement, EmptyIncrement, PartsIncrement>>
    /\ ChunkContents(streams[r].frames) = <<<<"a">>, <<"b">>>>
    /\ Stored(streams[r].session_id)
    /\ Last(Session(streams[r].session_id).messages).assistant = <<"a", "b">>

\* the frames are chunk frames followed by nothing yet, by the metadata frame,
\* by the metadata and the done frame, or by one error frame
FrameShape(frames) ==
  \E k \in 0..Len(frames) :
    /\ \A i \in 1..k : frames[i].type = "chunk"
    /\ [i \in 1..(Len(frames) - k) |-> frames[k + i].type]
         \in {<<>>, <<"metadata">>, <<"metadata", "done">>, <<"error">>}

Ended(st) == st.pc \in {"done", "error", "closed"}

\* C6: the frames of a streaming response are chunk frames followed by one
\* metadata frame and one done frame, or by one error frame; frames are only
\* added at the end, none after a done or an error frame; and a response that
\* has started eventually ends
C6_FramesEndWithMetadataDone ==
  /\ [](\A r \in StreamIds :
          /\ FrameShape(streams[r].frames)
          /\ streams[r].pc = "done" =>
               /\ Len(streams[r].frames) >= 2
               /\ Last(streams[r].frames).type = "done"
               /\ streams[r].frames[Len(streams[r].frames) - 1].type = "metadata"
          /\ streams[r].pc = "error" => Last(streams[r].frames).type = "error")
  /\ [][\A r \in StreamIds :
          LET old == streams[r].frames
              new == streams'[r].frames
          IN /\ Ended(streams[r]) => new = old \/ streams'[r].pc = "closed"
             /\ InFlight(streams[r]) /\ InFlight(streams'[r]) =>
                  /\ Len(new) \in {Len(old), Len(old) + 1}
                  /\ SubSeq(new, 1, Len(old)) = old]_vars
  /\ \A r \in SoloSlots : InFlight(streams[r]) ~> Ended(streams[r])

\* a response of two chunk frames has ended with the metadata and done frames
C6_Witness ==
  \E r \in StreamIds :
    /\ streams[r].pc = "done"
    /\ [i \in 1..Len(streams[r].frames) |-> streams[r].frames[i].type]
         = <<"chunk", "chunk", "metadata", "done">>

\* the truncation rule: reported is what the rule gives for context
Truncated(context, reported) ==
  /\ Len(context) <= 200 => reported = context
  /\ Len(context) > 200 =>
       /\ Len(reported) = 203
       /\ \A i \in 1..200 : reported[i] = context[i]
       /\ \A i \in 201..203 : reported[i] = "."
  /\ Len(reported) <= 203

C8_UninitializedService ==
  /\ [](/\ root.status = 200
        /\ health_check.status = 200
        /\ rag_service = None =>
             /\ ~health_check.body.model_initialized
             /\ ~health_check.body.rag_enabled
             /\ ~root.body.rag_initialized)
  /\ [][rag_service = None /\ resp' # resp /\ resp'.op \in {"chat", "stream"} =>
          /\ resp'.status = 500
          /\ UNCHANGED <<chat_sessions, heap, streams>>]_vars

\* a POST /chat/stream was refused by a service that is not initialized
C8_Witness ==
  /\ app = "serving"
  /\ rag_service = None
  /\ resp.op = "stream" /\ resp.status = 500
  /\ \A sid \in SessionIds : ~Stored(sid)

\* C9 as stated: a POST /sessions/{id}/summarize whose provider call fails
\* leaves the summary, when there was one, and the turn list as they were
C9_SummaryKeptOnFailure ==
  [][\A sid \in SessionIds :
       /\ Stored(sid)
       /\ Session(sid).summary # <<>>
       /\ Session(sid).messages # <<>>
       /\ resp' # resp /\ resp'.op = "summarize" /\ resp'.session_id = sid
       /\ resp'.status = 200 /\ resp'.note.failed
       => /\ Session(sid)'.summary = Session(sid).summary
          /\ Session(sid)'.messages = Session(sid).messages]_vars

\* C10: with the service initialized POST /chat answers 200; when its
\* generation call fails the response text is the error marker and the context
\* empty; a stream never has an error frame, and when the provider's stream
\* fails its last chunk frame carries the error marker and the metadata and
\* done frames follow; in both cases a turn holding the text is appended and
\* message_count is one more than before, as for a normal answer
C10_GenerationFailureIsAnswered ==
  /\ [](\A r \in StreamIds :
          LET frames == streams[r].frames
              types == [i \in 1..Len(frames) |-> frames[i].type]
              n == Len(ChunkContents(frames))
          IN /\ \A i \in 1..Len(frames) : types[i] # "error"
             /\ streams[r].pc # "error"
             /\ streams[r].failed =>
                  /\ n >= 1
                  /\ frames[n].type = "chunk"
                  /\ frames[n].content = ErrorMarker(ExcText)
                  /\ SubSeq(types, n + 1, Len(types)) =
                       CASE streams[r].pc = "marker" -> <<>>
                         [] streams[r].pc = "meta" -> <<"metadata">>
                         [] OTHER -> <<"metadata", "done">>)
  /\ [][/\ rag_service # None /\ resp' # resp /\ resp'.op = "chat" => resp'.status = 200
        /\ \A sid \in SessionIds :
             ChatAnswered(sid) =>
               LET before == IF Stored(sid) THEN Session(sid).message_count ELSE 0
                   after == Session(sid)'
               IN /\ after.message_count = before + 1
                  /\ resp'.body.message_count = before + 1
                  /\ Last(after.messages).assistant = resp'.body.response
                  /\ resp'.note.gen_failed =>
                       /\ resp'.body.response = ErrorMarker(ExcText)
                       /\ resp'.body.context_used = <<>>
        /\ \A r \in StreamIds :
             StreamStored(r) =>
               LET before == heap[streams[r].session].message_count
                   after == Session(streams[r].session_id)'
                   text == Last(after.messages).assistant
               IN /\ after.message_count = before + 1
                  /\ Last(streams'[r].frames).message_count = before + 1
                  /\ text = streams[r].full_response
                  /\ streams[r].failed =>
                       /\ Len(text) >= Len(ErrorMarker(ExcText))
                       /\ LastN(text, Len(ErrorMarker(ExcText))) = ErrorMarker(ExcText)]_vars

\* a stream whose provider failed after an increment has ended, and then a
\* POST /chat whose generation failed was answered
C10_Witness ==
  /\ resp.op = "chat" /\ resp.status = 200
  /\ resp.note.gen_failed
  /\ resp.body.response = ErrorMarker(ExcText)
  /\ \E r \in StreamIds :
       /\ streams[r].pc = "done"
       /\ streams[r].failed
       /\ ChunkContents(streams[r].frames) = <<<<"a">>, ErrorMarker(ExcText)>>

\* the step is a Clear chat of the UI
UiCleared == ui' # ui /\ ui'.last.action = "clear"

\* the request of the UI's last action arrived and was answered with 200
UiSucceeded(u) == u.last.how = "answered" /\ u.last.status = 200

\* C11: a Clear chat of the UI empties the local message list and takes a new
\* local session id exactly when its DELETE succeeded; when the DELETE failed
\* (no answer, or 404 because the API does not hold the session) the local
\* list and the local id are what they were
C11_ClearChatOnlyOnSuccess ==
  [][UiCleared =>
       /\ UiSucceeded(ui') =>
            /\ ui'.messages = <<>>
            /\ ui'.session_id \notin issued \cup {ui.session_id}
            /\ Stored(ui.session_id) /\ chat_sessions'[ui.session_id] = NoRef
       /\ ~UiSucceeded(ui') =>
            /\ ui'.messages = ui.messages
            /\ ui'.session_id = ui.session_id
       /\ ~Stored(ui.session_id) => ~UiSucceeded(ui')
       /\ ui'.last.how = "answered" /\ Stored(ui.session_id) => UiSucceeded(ui')]_vars

C11_Witness ==
  /\ ui.last.action = "clear" /\ UiSucceeded(ui)
  /\ ui.messages = <<>> /\ ui.session_id # InitialUi.session_id
  /\ ~Stored(InitialUi.session_id) /\ InitialUi.session_id \in seen

\* the step is a send-message of the UI
UiSent == ui' # ui /\ ui'.last.action = "send"

\* C12 as stated: after a send-message of the UI that failed (no answer, or an
\* answer with an error status), the local message list and the local session
\* id are what they were before the user submitted the message
C12_FailedSendLeavesLocalState ==
  [][UiSent /\ ~UiSucceeded(ui') =>
       /\ ui'.messages = ui.messages
       /\ ui'.session_id = ui.session_id]_vars

StoredIds == {sid \in SessionIds : Stored(sid)}

\* the step is a DELETE naming sid answered with 200
DeleteSucceeded(sid) ==
  resp'.op = "delete" /\ resp'.session_id = sid /\ resp'.status = 200

\* C13: a session in the store stays there until a DELETE naming it succeeds:
\* a step after which a stored id is no longer stored is a DELETE of that id
\* answered with 200; every other step (chat, periodic or forced summarization,
\* the read endpoints, the UI's actions) keeps every stored id and does not
\* reduce the number of sessions, and the UI's New session leaves the store and
\* the sessions as they were
C13_RemovedOnlyByDelete ==
  [][/\ \A sid \in SessionIds :
          Stored(sid) /\ chat_sessions'[sid] = NoRef => DeleteSucceeded(sid)
     /\ (\A sid \in SessionIds : ~DeleteSucceeded(sid)) =>
          /\ StoredIds \subseteq StoredIds'
          /\ Cardinality(StoredIds') >= Cardinality(StoredIds)
     /\ ui' # ui /\ ui'.last.action = "new" =>
          /\ chat_sessions' = chat_sessions
          /\ \A sid \in StoredIds : Session(sid)' = Session(sid)]_vars

\* the UI took a new session while the API held its previous one, which was
\* summarized and is still stored
C13_Witness ==
  /\ ui.last.action = "new" /\ ui.session_id # InitialUi.session_id
  /\ Stored(InitialUi.session_id)
  /\ Session(InitialUi.session_id).summary # <<>>
  /\ Session(InitialUi.session_id).message_count >= 2

Returned(fn) == resp.op = "return" /\ resp.fn = fn

\* C14: _should_summarize returns true exactly when the session's message_count
\* is greater than 0 and divisible by summarize_threshold, a session dict
\* without a message_count key counting as 0; with threshold 5 it returns
\* false for 0, 1, 2, 3, 4, 6 and true for 5, 10, 15
C14_ShouldSummarize ==
  Returned("_should_summarize") =>
    LET sd == resp.args.session_data
        count == IF "message_count" \in DOMAIN sd THEN sd.message_count ELSE 0
        threshold == resp.args.svc.summarize_threshold
    IN /\ resp.result <=> (count > 0 /\ count % threshold = 0)
       /\ threshold = 5 /\ count \in {0, 1, 2, 3, 4, 6} => ~resp.result
       /\ threshold = 5 /\ count \in {5, 10, 15} => resp.result
       /\ "message_count" \notin DOMAIN sd => ~resp.result

C14_Witness ==
  /\ Returned("_should_summarize")
  /\ resp.args.svc.summarize_threshold = 5
  /\ "message_count" \in DOMAIN resp.args.session_data
  /\ resp.args.session_data.message_count = 15
  /\ resp.result

Min(a, b) == IF a < b THEN a ELSE b

\* the context the claim describes for a summary, a turn list and a window
DescribedContext(summary, messages, N) ==
  LET shown == Min(N, Len(messages))
      first == Len(messages) - shown
      summary_block == <<"Previous conversation summary:", "\n">> \o summary
      recent_block ==
        <<<<"Recent conversation:">>>> \o
        [j \in 1..2 * shown |->
           IF j % 2 = 1 THEN <<"User: ">> \o messages[first + (j + 1) \div 2].user
           ELSE <<"Assistant: ">> \o messages[first + j \div 2].assistant]
  IN Join((IF summary # <<>> THEN <<summary_block>> ELSE <<>>)
            \o (IF shown > 0 THEN recent_block ELSE <<>>),
          <<"\n", "\n">>)

Occurs(token, text) == \E i \in 1..Len(text) : text[i] = token

\* C15: for a session and a history window N >= 1, the context starts with the
\* summary block exactly when the summary is non-empty, followed by the
\* recent-conversation block with the last min(N, turns) turns in their order as
\* alternating User/Assistant lines; the recent-conversation block is absent
\* when the session has no turns
C15_ConversationContext ==
  Returned("_build_conversation_context") =>
    LET sd == resp.args.session_data
        summary == IF "summary" \in DOMAIN sd THEN sd.summary ELSE <<>>
        messages == IF "messages" \in DOMAIN sd THEN sd.messages ELSE <<>>
        N == resp.args.svc.max_history_length
        shown == Min(N, Len(messages))
    IN /\ resp.result = DescribedContext(summary, messages, N)
       /\ (summary # <<>>) <=>
            (resp.result # <<>> /\ resp.result[1] = "Previous conversation summary:")
       /\ (summary # <<>>) <=> Occurs("Previous conversation summary:", resp.result)
       /\ (messages # <<>>) <=> Occurs("Recent conversation:", resp.result)
       /\ Cardinality({i \in 1..Len(resp.result) : resp.result[i] = "User: "}) = shown
       /\ Cardinality({i \in 1..Len(resp.result) : resp.result[i] = "Assistant: "}) = shown

\* a summary and four turns with a window of three: the oldest turn is omitted
C15_Witness ==
  /\ Returned("_build_conversation_context")
  /\ resp.args.svc.max_history_length = 3
  /\ resp.args.session_data = [messages |-> Turns(4), summary |-> <<"s">>, message_count |-> 4]
  /\ resp.result =
       <<"Previous conversation summary:", "\n", "s", "\n", "\n",
         "Recent conversation:", "\n", "\n",
         "User: ", "y", "z", "\n", "\n", "Assistant: ", "a", "y", "z", "\n", "\n",
         "User: ", "y", "z", "x", "\n", "\n", "Assistant: ", "a", "y", "z", "x", "\n", "\n",
         "User: ", "y", "z", "x", "y", "\n", "\n", "Assistant: ", "a", "y", "z", "x", "y">>

\* the places of a character in a text
Places(token, text) == {i \in 1..Len(text) : text[i] = token}

\* the text has one section with this header and this content
Section(text, header, content) ==
  /\ Cardinality(Places(header, text)) = 1
  /\ \A i \in Places(header, text) :
       /\ i + 1 + Len(content) <= Len(text)
       /\ text[i + 1] = "\n"
       /\ SubSeq(text, i + 2, i + 1 + Len(content)) = content

\* the sections that are present come in this order
Ordered(text, headers) ==
  \A a, b \in 1..Len(headers) :
    a < b => \A i \in Places(headers[a], text), j \in Places(headers[b], text) : i < j

\* C16: the RAG chat prompt has a KNOWLEDGE BASE CONTEXT section exactly when
\* rag_context is non-empty and a CONVERSATION HISTORY section exactly when
\* conversation_context is non-empty, in the order history, knowledge base,
\* current user message, instructions, RESPONSE; the plain chat prompt never
\* has a KNOWLEDGE BASE CONTEXT section
C16_PromptSections ==
  /\ Returned("get_rag_chat_prompt") =>
       /\ IF resp.args.rag_context # <<>>
          THEN Section(resp.result, "KNOWLEDGE BASE CONTEXT:", resp.args.rag_context)
          ELSE ~Occurs("KNOWLEDGE BASE CONTEXT:", resp.result)
       /\ IF resp.args.conversation_context # <<>>
          THEN Section(resp.result, "CONVERSATION HISTORY:", resp.args.conversation_context)
          ELSE ~Occurs("CONVERSATION HISTORY:", resp.result)
       /\ Section(resp.result, "CURRENT USER MESSAGE:", resp.args.user_message)
       /\ Cardinality(Places("INSTRUCTIONS:", resp.result)) = 1
       /\ Places("RESPONSE:", resp.result) = {Len(resp.result)}
       /\ Ordered(resp.result,
                  <<"CONVERSATION HISTORY:", "KNOWLEDGE BASE CONTEXT:",
                    "CURRENT USER MESSAGE:", "INSTRUCTIONS:", "RESPONSE:">>)
  /\ Returned("get_chat_prompt") =>
       /\ ~Occurs("KNOWLEDGE BASE CONTEXT:", resp.result)
       /\ Occurs("CONVERSATION HISTORY:", resp.result)
            <=> resp.args.conversation_context # <<>>

\* a RAG prompt with both sections
C16_Witness ==
  /\ Returned("get_rag_chat_prompt")
  /\ resp.args.rag_context = <<"k", "\n", "\n", "k">>
  /\ resp.args.user_message = <<"q">>
  /\ Occurs("Previous conversation summary:", resp.args.conversation_context)
  /\ Occurs("Recent conversation:", resp.args.conversation_context)
  /\ Occurs("KNOWLEDGE BASE CONTEXT:", resp.result)
  /\ Occurs("CONVERSATION HISTORY:", resp.result)

\* stream r has done its bookkeeping for sid and its response is not closed
Completed(r, sid) == streams[r].pc \in {"meta", "done"} /\ streams[r].session_id = sid

\* C17 as stated: when two POST /chat/stream requests naming the same id
\* overlap, then after both have completed the stored session holds both turns
\* and its message_count has grown by 2, whether the id was stored or unseen
\* when they arrived (no turn is appended between their arrival and their
\* completion but theirs, so the count has grown by 2 exactly when it is the
\* number of turns appended)
C17_OverlappingStreamsBothCounted ==
  \A sid \in SessionIds :
    (\A r \in OverlapSlots : Completed(r, sid)) =>
      /\ Stored(sid)
      /\ Session(sid).message_count = appended[sid]
      /\ Len(Session(sid).messages) >= 2

\* C18 as stated, for the states in which no request has been handled since
\* the DELETE (the last response is the 200 of DELETE /sessions/{id}, so no
\* chat request naming the id has arrived after it): GET /sessions/{id}
\* answers 404, also when a streaming request for the id was in flight when the
\* DELETE was handled
C18_NotFoundAfterDelete ==
  resp.op = "delete" /\ resp.status = 200 => get_session(resp.session_id).status = 404

\* the store and the stored sessions are after the step what they were
StoreUnchanged ==
  /\ chat_sessions' = chat_sessions
  /\ \A sid \in SessionIds : Stored(sid) => Session(sid)' = Session(sid)

\* the step is the arrival of streaming request r
StreamArrived(r) == streams[r].pc = "idle" /\ streams'[r].pc = "start"

\* the step is a resumption of stream r
StreamResumed(r) == streams[r].pc # "idle" /\ streams'[r] # streams[r]

\* C19: the bookkeeping of a streaming request is deferred: its arrival and
\* every resumption that yields a chunk frame leave the store and the stored
\* sessions as they were (an unseen id still answers 404 to GET); the only
\* resumption that changes them is the one after the last chunk frame, in which
\* summarize-and-prune, the append of the turn and the increment of the count
\* take place and which yields the metadata frame and no chunk frame
C19_BookkeepingDeferred ==
  [][\A r \in StreamIds :
       LET st == streams[r]
           sid == st.session_id
       IN /\ StreamArrived(r) =>
               /\ StoreUnchanged
               /\ \A id \in SessionIds : get_session(id)'.status = get_session(id).status
          /\ StreamResumed(r) /\ ~StreamStored(r) => StoreUnchanged
          /\ StreamResumed(r) /\ Len(streams'[r].frames) > Len(st.frames)
               /\ Last(streams'[r].frames).type = "chunk" => StoreUnchanged
          /\ StreamStored(r) =>
               LET before == heap[st.session]
                   after == heap'[chat_sessions'[sid]]
                   summarized == streams'[r].summarized
                   pruned == summarized.called /\ summarized.text # <<>>
               IN /\ streams'[r].frames =
                       Append(st.frames,
                              MetadataFrame(sid, after.message_count,
                                            Last(streams'[r].frames).context_used))
                  /\ after.message_count = before.message_count + 1
                  /\ Last(after.messages).user = st.message
                  /\ after.summary = IF pruned THEN summarized.text ELSE before.summary
                  /\ Len(after.messages) =
                       1 + (IF pruned THEN Min(KeepAfterSummary, Len(before.messages))
                            ELSE Len(before.messages))
                  /\ summarized.called <=>
                       (~st.failed /\ st.pc # "marker"
                          /\ should_summarize(rag_service, before))]_vars

\* a stream that delivered two increments, then summarized and pruned its
\* session, appended its turn and yielded the metadata frame
C19_Witness ==
  \E r \in StreamIds :
    /\ streams[r].pc = "meta"
    /\ Len(streams[r].frames) = 3
    /\ streams[r].frames[1].type = "chunk" /\ streams[r].frames[1].content = <<"a">>
    /\ streams[r].frames[2].type = "chunk" /\ streams[r].frames[2].content = <<"b">>
    /\ streams[r].frames[3].type = "metadata" /\ streams[r].frames[3].message_count = 2
    /\ streams[r].summarized.called /\ streams[r].summarized.text # <<>>
    /\ Stored(streams[r].session_id)
    /\ Session(streams[r].session_id).summary = streams[r].summarized.text

\* what POST /chat leaves and reports for the request of stream r, on the
\* session as the stream's bookkeeping finds it, with the context the stream
\* retrieved, the provider returning the text the stream received and the
\* summarization the stream got
AsChat(r) ==
  LET st == streams[r]
      text == Last(heap'[chat_sessions'[st.session_id]].messages).assistant
      summary == streams'[r].summarized.text
      out == chat_with_history(rag_service, heap[st.session], TRUE,
                               [raise |-> FALSE, contexts |-> <<streams'[r].rag_context>>],
                               [raise |-> FALSE, text |-> text],
                               IF summary = <<>> THEN Raise
                               ELSE [raise |-> FALSE, text |-> summary])
  IN [session |-> Updated(out.session_data, st.message, out.response),
      context_used |-> Excerpt(out.context)]

\* C20 as stated: a streaming request whose provider delivered its text in
\* increments (any number of them, none included) and did not fail leaves the
\* session with the message_count, the summary and the number of turns that
\* POST /chat leaves for the same request, retrieval and text, and its metadata
\* frame reports the same context_used
C20_StreamAsChat ==
  [][\A r \in StreamIds :
       StreamStored(r) /\ ~streams'[r].failed /\ rag_service.model =>
         LET after == heap'[chat_sessions'[streams[r].session_id]]
         IN /\ after.message_count = AsChat(r).session.message_count
            /\ after.summary = AsChat(r).session.summary
            /\ Len(after.messages) = Len(AsChat(r).session.messages)
            /\ Last(streams'[r].frames).context_used = AsChat(r).context_used]_vars

\* the retrieval of the call gives no context: it is disabled, not requested,
\* fails, or returns no text
NothingRetrieved(a) ==
  \/ ~a.svc.rag_resources
  \/ ~a.use_rag
  \/ a.retr.raise
  \/ \A i \in 1..Len(a.retr.contexts) : a.retr.contexts[i] = <<>>

\* C21: a retrieval query is issued only if use_rag is true and a retrieval
\* resource is configured; the RAG prompt template is selected exactly when the
\* retrieved context is non-empty, so a request whose retrieval is disabled,
\* not requested, fails or returns nothing completes with the plain template
\* and an empty context; the returned context is at most max_context_length
\* characters
C21_RetrievalAndTemplate ==
  Returned("chat_with_history") =>
    LET a == resp.args
        final == resp.result.final
        out == resp.result.out
        history == build_conversation_context(a.svc, a.session_data)
    IN /\ final.queried => a.use_rag /\ a.svc.rag_resources
       /\ ~final.queried => final.rag_context = <<>>
       /\ IF final.rag_context # <<>>
          THEN /\ final.prompt = get_rag_chat_prompt(a.message, final.rag_context, history)
               /\ Head(final.prompt) = Head(RagPreamble[1])
               /\ Occurs("KNOWLEDGE BASE CONTEXT:", final.prompt)
          ELSE /\ final.prompt = get_chat_prompt(a.message, history)
               /\ Head(final.prompt) = Head(ChatPreamble[1])
               /\ ~Occurs("KNOWLEDGE BASE CONTEXT:", final.prompt)
       /\ NothingRetrieved(a) <=> final.rag_context = <<>>
       /\ NothingRetrieved(a) =>
            /\ out.context = <<>>
            /\ ~a.gen.raise => out.response = strip(a.gen.text)
       /\ ~a.gen.raise => out.context = final.rag_context
       /\ Len(final.rag_context) <= max_context_length
       /\ Len(out.context) <= max_context_length

\* a retrieval of more than max_context_length characters, cut to the maximum
\* and put in the RAG template
C21_Witness ==
  /\ Returned("chat_with_history")
  /\ resp.args.use_rag /\ resp.args.svc.rag_resources
  /\ ~resp.args.retr.raise
  /\ Len(resp.args.retr.contexts) = 2
  /\ Len(resp.args.retr.contexts[1]) = max_context_length
  /\ Len(resp.result.out.context) = max_context_length
  /\ Occurs("KNOWLEDGE BASE CONTEXT:", resp.result.final.prompt)
  /\ resp.result.out.response = <<"a">>

\* the periodic summarization of the step was called and gave no text
SummaryFailed(summarized) == summarized.called /\ summarized.text = <<>>

\* after is before with one turn appended and the count incremented
OnlyTurnAdded(before, after) ==
  /\ after.summary = before.summary
  /\ after.message_count = before.message_count + 1
  /\ after.messages = Append(before.messages, Last(after.messages))

ForceSummarized(sid) ==
  resp' # resp /\ resp'.op = "summarize" /\ resp'.session_id = sid

\* C23: POST /sessions/{id}/summarize on a stored session runs whatever the
\* message_count is, hands the session's whole turn list to the summarization,
\* and changes only that session's summary: its turns, its count, the store and
\* every other session are unchanged; on an id not in the store it answers 404
\* and changes nothing
C23_ForceSummarizeFrame ==
  [][\A sid \in SessionIds :
       ForceSummarized(sid) =>
         /\ chat_sessions' = chat_sessions
         /\ \A other \in SessionIds \ {sid} : Stored(other) => Session(other)' = Session(other)
         /\ IF Stored(sid)
            THEN /\ resp'.status = 200
                 /\ resp'.note.input = Session(sid).messages
                 /\ resp'.body.message_count = Session(sid).message_count
                 /\ Session(sid)' = [Session(sid) EXCEPT !.summary = resp'.body.summary]
            ELSE /\ resp'.status = 404
                 /\ heap' = heap]_vars

\* a forced summarization at a count that is no multiple of the threshold,
\* with another session in the store
C23_Witness ==
  /\ resp.op = "summarize" /\ resp.status = 200
  /\ rag_service.summarize_threshold = summarize_threshold
  /\ Session(resp.session_id).message_count = 2
  /\ Len(resp.note.input) = 2
  /\ Session(resp.session_id).messages = resp.note.input
  /\ Session(resp.session_id).summary = <<"s">>
  /\ \E other \in SessionIds \ {resp.session_id} : Stored(other)

\* the step is a request of the UI to the API
UiCalled == ui' # ui /\ ui'.last.action \in {"send", "clear"}

\* C24 as stated: after any edits of the API URL field the client bound in the
\* UI session points at the field's current value, so every later request of
\* the UI goes to that URL, also after the field was set to another URL and
\* back to the default; an edit changes neither the local session id nor the
\* local messages
C24_ClientFollowsUrlField ==
  [][/\ UiCalled => ui'.last.url = ui.api_url
     /\ ui' # ui /\ ui'.last.action = "edit" =>
          /\ ui'.chat_client = ui'.api_url
          /\ ui'.session_id = ui.session_id
          /\ ui'.messages = ui.messages]_vars

\* the turn records a generation that failed: its answer holds the error marker
FailedTurn(turn) == Occurs("#", turn.assistant)

\* the step is a chat request, blocking or streaming, on sid whose periodic
\* summarization gave text, on a session that had at least two turns
PrunedBy(sid, before) ==
  /\ Len(before.messages) >= 2
  /\ \/ ChatAnswered(sid) /\ Stored(sid) /\ before = Session(sid)
          /\ resp'.note.summarized.text # <<>>
     \/ \E r \in StreamIds :
          /\ StreamStored(r) /\ streams[r].session_id = sid
          /\ before = heap[streams[r].session]
          /\ streams'[r].summarized.text # <<>>

C26_StoredSessionsHaveATurn ==
  /\ \A sid \in SessionIds :
       Stored(sid) =>
         /\ Session(sid).message_count >= 1
         /\ Len(Session(sid).messages) >= 1
  /\ (resp.op = "summarize" /\ resp.status = 200) => resp.note.input # <<>>

\* a forced summarization of a session whose turn list has been pruned by a
\* periodic summarization
C26_Witness ==
  /\ resp.op = "summarize" /\ resp.status = 200
  /\ Stored(resp.session_id)
  /\ Len(resp.note.input) < Session(resp.session_id).message_count
  /\ Session(resp.session_id).summary # NotSummarized

\* message_count the API holds for an id, 0 when the id is not in the store
Count(sid) == IF Stored(sid) THEN Session(sid).message_count ELSE 0

\* the id a request naming rid is answered with: rid itself unless it is
\* absent or empty, and then an id that was in use nowhere
Echoed(rid, session_id) ==
  IF rid \in {NoId, ""}
  THEN session_id \in GeneratedIds \ (issued \cup {ui.session_id})
  ELSE session_id = rid

\* the step is a POST /chat naming rid
ChatRequested(rid) ==
  \E m \in Messages, u \in BOOLEAN, gen \in GenerationOutcomes,
     retr \in DeepRetrievals \cup {Raise}, summ \in SummaryOutcomes :
    chat_endpoint(rid, m, u, retr, gen, summ)

\* the step is a POST /chat/stream naming rid, taken up by slot r
StreamRequested(r, rid) ==
  \E m \in Messages, u \in BOOLEAN : chat_stream_endpoint(r, rid, m, u)

\* the step is a send of the UI that was answered with 200
UiSendSucceeded ==
  /\ ui' # ui /\ ui'.last.action = "send"
  /\ ui'.last.how = "answered" /\ ui'.last.status = 200

\* the UI holds two messages for every turn the API has counted on its id
UiInStep == Len(ui.messages) = 2 * Count(ui.session_id)

\* C27: POST /chat and POST /chat/stream answer with the id the request names
\* when it is not empty and with an unused id when it is absent or empty, and
\* every chunk and metadata frame of a stream carries that id; a successful
\* send of the UI is answered with the UI's id and leaves it unchanged; a
\* new local session starts with no messages on an id the API has not counted,
\* no other request changes the count of the UI's id, and every successful
\* send adds one to that count and two messages to the UI's list, so that
\* after k successful sends and no failure the count is k and the list 2k long
C27_SessionIdEchoedAndCountsInStep ==
  /\ UiInStep
  /\ [][/\ \A rid \in RequestIds \cup GeneratedIds :
             (nreq < MaxRequests /\ ChatRequested(rid) /\ resp'.status = 200)
               => Echoed(rid, resp'.session_id)
        /\ \A rid \in RequestIds \cup GeneratedIds, r \in StreamIds :
             (nreq < MaxRequests /\ StreamRequested(r, rid) /\ resp'.status = 200)
               => /\ Echoed(rid, resp'.session_id)
                  /\ streams'[r].session_id = resp'.session_id
        /\ \A r \in StreamIds :
             /\ InFlight(streams[r]) /\ InFlight(streams'[r])
                  => streams'[r].session_id = streams[r].session_id
             /\ \A i \in 1..Len(streams'[r].frames) :
                  streams'[r].frames[i].type \in {"chunk", "metadata"}
                    => streams'[r].frames[i].session_id = streams'[r].session_id
        /\ UiSendSucceeded =>
             /\ resp'.session_id = ui.session_id
             /\ ui'.session_id = ui.session_id
             /\ Len(ui'.messages) = Len(ui.messages) + 2
             /\ Count(ui.session_id)' = Count(ui.session_id) + 1
        /\ ui'.session_id # ui.session_id =>
             ui'.messages = <<>> /\ Count(ui.session_id)' = 0
        /\ ui' = ui => Count(ui.session_id)' = Count(ui.session_id)
       ]_vars

\* two successful sends on a session the UI started anew: the API counts 2
\* on the UI's id and the UI holds 4 messages
C27_Witness ==
  /\ ui.session_id \in GeneratedIds
  /\ ui.last.action = "send" /\ ui.last.how = "answered" /\ ui.last.status = 200
  /\ Len(ui.messages) = 4
  /\ Count(ui.session_id) = 2
  /\ resp.op = "chat" /\ resp.session_id = ui.session_id

=============================================================================
